---------------------------- MODULE Spec2Model ----------------------------
(***************************************************************************)
(* Model of src/main.rs: the N-body stepper of InterplanetarySimulation.   *)
(*                                                                         *)
(* The program computes in f32.  The model computes in fixed point, every  *)
(* quantity an integer number of a unit:                                   *)
(*    positions, distances, radii   1/PosScale   world units (0.1)         *)
(*    velocities                    1/VelScale   world units per second    *)
(*    forces                        1/ForceScale                           *)
(*    masses, dt                    1                                      *)
(* Every quotient is truncated toward zero (Quot, MulDiv), so that, as in  *)
(* IEEE arithmetic, negating an operand negates the result.  Sums and      *)
(* differences are exact.  Rendering state (camera_pos, zoom, color, the   *)
(* painter) is never read by the simulation logic and is left out.         *)
(***************************************************************************)
EXTENDS Integers, Sequences

\* ------------------------------------------------------------ arithmetic

Abs(a) == IF a < 0 THEN -a ELSE a

Sgn(a) == IF a < 0 THEN -1 ELSE IF a > 0 THEN 1 ELSE 0

\* a / b truncated toward zero, b > 0.
Quot(a, b) == Sgn(a) * (Abs(a) \div b)

\* <<q, r>> with a * b = q * c + r and 0 <= r < c, for a, b >= 0 and c > 0,
\* computed by doubling so that no intermediate product leaves 32 bits.
RECURSIVE MulDivQR(_, _, _)
MulDivQR(a, b, c) ==
    IF b = 0 THEN <<0, 0>>
    ELSE LET h == MulDivQR(a, b \div 2, c)
             odd == (b % 2 = 1)
             t == 2 * h[2] + (IF odd THEN a % c ELSE 0)
         IN  <<2 * h[1] + (IF odd THEN a \div c ELSE 0) + t \div c, t % c>>

\* a * b / c truncated toward zero, c > 0.
MulDiv(a, b, c) == Sgn(a) * Sgn(b) * MulDivQR(Abs(a), Abs(b), c)[1]

\* floor(sqrt(n)) for n >= 0, by bisection on [lo, hi).
RECURSIVE SqrtIn(_, _, _)
SqrtIn(n, lo, hi) ==
    IF hi - lo <= 1 THEN lo
    ELSE LET mid == (lo + hi) \div 2
         IN  IF mid * mid <= n THEN SqrtIn(n, mid, hi) ELSE SqrtIn(n, lo, mid)

Sqrt(n) == SqrtIn(n, 0, 46341)

\* ------------------------------------------------------- units, constants

PosScale == 10
VelScale == 10000000
ForceScale == 1000000000

\* const G: f32 = 6.67430e-5, in units of 1/ForceScale.
G == 66743

\* std::f32::consts::PI as the ratio PiNum / PiDen.
PiNum == 355
PiDen == 113

\* The orbit-assist range 150.0 (in 1/PosScale), mass ratio 5.0 and kick
\* 0.05 (in 1/VelScale).
OrbitRange == 1500
OrbitMassRatio == 5
OrbitKick == 500000

\* ---------------------------------------------------------------- vectors

Vec(x, y) == [x |-> x, y |-> y]

Zeros == Vec(0, 0)

VAdd(a, b) == Vec(a.x + b.x, a.y + b.y)

VSub(a, b) == Vec(a.x - b.x, a.y - b.y)

NormSquared(v) == v.x * v.x + v.y * v.y

\* v.normalize() * mag: each component is mag * v / |v|, |v| = sqrt(|v|^2).
NormalizeTimes(v, mag) ==
    LET norm == Sqrt(NormSquared(v))
    IN  Vec(MulDiv(mag, v.x, norm), MulDiv(mag, v.y, norm))

\* ---------------------------------------------------------- CelestialBody

\* radius: (mass / PI).sqrt() / 2.0, in 1/PosScale.
Radius(mass) ==
    Sqrt(Quot(mass * PosScale * PosScale * PiDen, PiNum)) \div 2

\* New with the halving of line 22 left out.
NewNoHalf(pos, mass) ==
    [pos |-> pos, vel |-> Zeros, mass |-> mass,
     radius |-> Sqrt(Quot(mass * PosScale * PosScale * PiDen, PiNum))]

\* CelestialBody::new.
New(pos, mass) ==
    [pos |-> pos, vel |-> Zeros, mass |-> mass, radius |-> Radius(mass)]

\* The gate with `>=` for the `>` of line 42.
GateFiresBelow(self, other) ==
    ~ (NormSquared(VSub(other.pos, self.pos))
          >= (self.radius + other.radius) * (self.radius + other.radius))

\* The closeness gate: the negation of the condition of line 42.
GateFires(self, other) ==
    ~ (NormSquared(VSub(other.pos, self.pos))
          > (self.radius + other.radius) * (self.radius + other.radius))

\* G * self.mass * other.mass / dist_sq, in 1/ForceScale.
ForceMag(self, other) ==
    MulDiv(G * self.mass, other.mass * PosScale * PosScale,
           NormSquared(VSub(other.pos, self.pos)))

\* force / self.mass, as a velocity (1/VelScale).
Gravity(self, other) ==
    LET force == NormalizeTimes(VSub(other.pos, self.pos), ForceMag(self, other))
        k == self.mass * (ForceScale \div VelScale)
    IN  Vec(Quot(force.x, k), Quot(force.y, k))

\* The condition of line 48 with `<=` for its `<`.
OrbitAssistAtRange(self, other) ==
    /\ Sqrt(NormSquared(VSub(other.pos, self.pos))) <= OrbitRange
    /\ other.mass > self.mass * OrbitMassRatio

\* The condition of line 48 with `||` for its `&&`.
OrbitAssistEither(self, other) ==
    \/ Sqrt(NormSquared(VSub(other.pos, self.pos))) < OrbitRange
    \/ other.mass > self.mass * OrbitMassRatio

\* The condition of line 48.
OrbitAssist(self, other) ==
    /\ Sqrt(NormSquared(VSub(other.pos, self.pos))) < OrbitRange
    /\ other.mass > self.mass * OrbitMassRatio

\* The kick along (dir.y, -dir.x), the other perpendicular of dir.
KickClockwise(self, other) ==
    LET dir == VSub(other.pos, self.pos)
    IN  NormalizeTimes(Vec(dir.y, -dir.x), OrbitKick)

\* tangential * 0.05.
Kick(self, other) ==
    LET dir == VSub(other.pos, self.pos)
    IN  NormalizeTimes(Vec(-dir.y, dir.x), OrbitKick)

ApplyGravity(self, other) ==
    IF GateFires(self, other) THEN self
    ELSE LET v1 == VAdd(self.vel, Gravity(self, other))
             v2 == IF OrbitAssist(self, other)
                   THEN VAdd(v1, Kick(self, other)) ELSE v1
         IN  [self EXCEPT !.vel = v2]

\* self.pos += self.vel * dt.
Update(self, dt) ==
    LET k == VelScale \div PosScale
    IN  [self EXCEPT !.pos = Vec(self.pos.x + Quot(self.vel.x * dt, k),
                                 self.pos.y + Quot(self.vel.y * dt, k))]

\* The pair's step with the body moved at once: update(d) called in the
\* inner loop.
PairStepMoving(bs, a, b, d) ==
    [bs EXCEPT ![a] = Update(ApplyGravity(bs[a], bs[b]), d)]

\* The pair's step with its velocity increment multiplied by d.
PairStepScaled(bs, a, b, d) ==
    LET g == ApplyGravity(bs[a], bs[b])
    IN  [bs EXCEPT ![a] =
            [g EXCEPT !.vel = Vec(bs[a].vel.x + (g.vel.x - bs[a].vel.x) * d,
                                  bs[a].vel.y + (g.vel.y - bs[a].vel.y) * d)]]

\* Lines 135-136 for the pair (a, b) of the store bs, in a frame whose dt is d:
\* bodies[a].apply_gravity(&bodies[b]).  The shared reference `other` made
\* through a raw pointer and the exclusive one to bodies[a] name different
\* elements (a # b): apply_gravity reads the one and writes the other.
PairStep(bs, a, b, d) ==
    [bs EXCEPT ![a] = ApplyGravity(bs[a], bs[b])]

\* The pair after (a, b) in the loops of lines 130-138, i == j skipped;
\* <<0, 0>> after the last one.
RECURSIVE NextPair(_, _, _)
NextPair(a, b, n) ==
    IF b < n THEN (IF b + 1 = a THEN NextPair(a, b + 1, n) ELSE <<a, b + 1>>)
    ELSE IF a < n THEN <<a + 1, 1>>
    ELSE <<0, 0>>

\* Lines 143-148: every body's update(d).
UpdateAll(bs, d) == [k \in 1..Len(bs) |-> Update(bs[k], d)]

\* The pairwise pass of lines 130-138 from the pair (a, b) on.
RECURSIVE GravityPass(_, _, _, _)
GravityPass(bs, a, b, d) ==
    LET nxt == NextPair(a, b, Len(bs))
        bs2 == PairStep(bs, a, b, d)
    IN  IF nxt = <<0, 0>> THEN bs2 ELSE GravityPass(bs2, nxt[1], nxt[2], d)

\* The simulation logic of one frame, lines 129-148, as a function of the
\* store and dt.
Step(bs, d) ==
    UpdateAll(IF Len(bs) >= 2 THEN GravityPass(bs, 1, 2, d) ELSE bs, d)

\* ------------------------------------------------------------- the store

\* Bounds of the model: AsteroidCount stands for the 200 of line 85,
\* MaxPlanets caps the "Add Planet" clicks between two resets and MaxFrames
\* the frames of a run.
AsteroidCount == 2
MaxPlanets == 1
MaxFrames == 2

\* The center (400.0, 300.0) of the asteroid ring.
Center == Vec(400 * PosScale, 300 * PosScale)

\* What the random generator hands to one iteration of the asteroid loop:
\* angle (as the direction <<5 cos, 5 sin>>), distance in [150, 350), mass in
\* [1, 5) and speed in [10, 30).
AsteroidDraws ==
    { [dir |-> Vec(5, 0), distance |-> 1500, mass |-> 1, speed |-> 10],
      [dir |-> Vec(5, 0), distance |-> 1600, mass |-> 4, speed |-> 29] }

\* The asteroid with its mass assigned after construction.
AsteroidMassLater(d) ==
    LET pos == Vec(Center.x + Quot(d.distance * d.dir.x, 5),
                   Center.y + Quot(d.distance * d.dir.y, 5))
        to_center == VSub(Center, pos)
        tangential == Vec(-to_center.y, to_center.x)
    IN  [New(pos, 1) EXCEPT
            !.mass = d.mass,
            !.vel = NormalizeTimes(tangential, d.speed * VelScale)]

\* One iteration of the asteroid loop, lines 86-100.
Asteroid(d) ==
    LET pos == Vec(Center.x + Quot(d.distance * d.dir.x, 5),
                   Center.y + Quot(d.distance * d.dir.y, 5))
        to_center == VSub(Center, pos)
        tangential == Vec(-to_center.y, to_center.x)
    IN  [New(pos, d.mass) EXCEPT
            !.vel = NormalizeTimes(tangential, d.speed * VelScale)]

\* The default population with the Sun and the Earth of lines 69-80 kept.
DefaultWithSun ==
    { << New(Vec(4000, 3000), 10000),
         [New(Vec(5000, 3000), 100) EXCEPT !.vel = Vec(0, 80 * VelScale)] >>
      \o [k \in 1..AsteroidCount |-> Asteroid(draws[k])] :
          draws \in [1..AsteroidCount -> AsteroidDraws] }

\* InterplanetarySimulation::default(): the Sun and the Earth pushed first
\* are dropped when `bodies` is bound again at line 82.
Default ==
    { [k \in 1..AsteroidCount |-> Asteroid(draws[k])] :
          draws \in [1..AsteroidCount -> AsteroidDraws] }

\* What the random generator hands to "Add Planet": a position in
\* [0, 800) x [0, 600) and a mass in [1500, 2200).
PlanetDraws ==
    { [pos |-> Vec(5611, 3000), mass |-> 1500],
      [pos |-> Vec(6000, 3000), mass |-> 2199] }

\* ui.input(|i| i.stable_dt), in seconds.
DtSet == {0, 1}

\* --------------------------------------------------------------- the state

VARIABLES
    bodies,   \* self.bodies
    dt,       \* the frame's dt
    pc,       \* where App::update stands: "frame", "gravity", "integrate",
              \* "reset", "add"
    i, j,     \* the indices of the pairwise pass (from 1)
    start,    \* history: bodies when the frame's simulation logic began
    frames,   \* history: the frames begun
    added,    \* history: the planets added since the last reset
    clicks    \* the frame's answers of the two buttons

vars == <<bodies, dt, pc, i, j, start, frames, added, clicks>>

NoClicks == [reset |-> FALSE, add |-> FALSE]

Init ==
    /\ bodies \in Default
    /\ dt = 0
    /\ pc = "frame"
    /\ i = 1
    /\ j = 1
    /\ start = bodies
    /\ frames = 0
    /\ added = 0
    /\ clicks = NoClicks

\* Line 129: the frame's simulation logic begins.
BeginFrame ==
    /\ pc = "frame"
    /\ frames < MaxFrames
    /\ dt' \in DtSet
    /\ start' = bodies
    /\ frames' = frames + 1
    /\ clicks' = NoClicks
    /\ i' = 1
    /\ j' = IF Len(bodies) >= 2 THEN 2 ELSE 1
    /\ pc' = IF Len(bodies) >= 2 THEN "gravity" ELSE "integrate"
    /\ UNCHANGED <<bodies, added>>

\* One iteration of the inner loop, lines 132-136, for the pair (i, j).
ApplyGravityStep ==
    /\ pc = "gravity"
    /\ bodies' = PairStep(bodies, i, j, dt)
    /\ LET nxt == NextPair(i, j, Len(bodies))
       IN  IF nxt = <<0, 0>>
           THEN /\ pc' = "integrate"
                /\ UNCHANGED <<i, j>>
           ELSE /\ pc' = "gravity"
                /\ i' = nxt[1]
                /\ j' = nxt[2]
    /\ UNCHANGED <<dt, start, frames, added, clicks>>

\* The update loop moving every body by the velocity it had before the
\* pairwise pass.
UpdateStepStale ==
    /\ pc = "integrate"
    /\ bodies' = [k \in 1..Len(bodies) |->
                     [bodies[k] EXCEPT !.pos = Update(start[k], dt).pos]]
    /\ pc' = "reset"
    /\ UNCHANGED <<dt, i, j, start, frames, added, clicks>>

\* Lines 143-148.
UpdateStep ==
    /\ pc = "integrate"
    /\ bodies' = UpdateAll(bodies, dt)
    /\ pc' = "reset"
    /\ UNCHANGED <<dt, i, j, start, frames, added, clicks>>

\* Lines 157-159.
ResetButton ==
    /\ pc = "reset"
    /\ \E clicked \in BOOLEAN :
          /\ clicks' = [clicks EXCEPT !.reset = clicked]
          /\ IF clicked
             THEN /\ bodies' \in Default
                  /\ added' = 0
             ELSE UNCHANGED <<bodies, added>>
    /\ pc' = "add"
    /\ UNCHANGED <<dt, i, j, start, frames>>

\* Lines 160-171.
AddPlanetButton ==
    /\ pc = "add"
    /\ \E clicked \in BOOLEAN :
          /\ clicks' = [clicks EXCEPT !.add = clicked]
          /\ IF clicked
             THEN /\ added < MaxPlanets
                  /\ \E p \in PlanetDraws :
                        bodies' = Append(bodies, New(p.pos, p.mass))
                  /\ added' = added + 1
             ELSE UNCHANGED <<bodies, added>>
    /\ pc' = "frame"
    /\ UNCHANGED <<dt, i, j, start, frames>>

Next ==
    \/ BeginFrame
    \/ ApplyGravityStep
    \/ UpdateStep
    \/ ResetButton
    \/ AddPlanetButton

Spec == Init /\ [][Next]_vars

\* ------------------------------------------- the stepper on its own

\* Stores for the stepper taken as a function of any store: a body at rest
\* at the origin, a second one with velocity (0, 80) and, in half of the
\* stores, a small third one.  (10000, 100) are the masses of the Sun and
\* the Earth of lines 69-80.
PairMasses == { <<10000, 100>>, <<5, 1>>, <<6, 1>> }

PairPositions ==
    { Vec(310, 0), Vec(311, 0), Vec(1000, 0), Vec(1499, 0), Vec(1500, 0),
      Vec(900, 1200) }

PairStores ==
    { << New(Zeros, m[1]),
         [New(q, m[2]) EXCEPT !.vel = Vec(0, 80 * VelScale)] >> :
          m \in PairMasses, q \in PairPositions }

StepperStores ==
    PairStores \cup
    { s \o << [New(Vec(0, 500), 1) EXCEPT !.vel = Vec(10 * VelScale, 0)] >> :
          s \in PairStores }

StepperInit ==
    /\ bodies \in StepperStores
    /\ dt = 0
    /\ pc = "frame"
    /\ i = 1
    /\ j = 1
    /\ start = bodies
    /\ frames = 0
    /\ added = 0
    /\ clicks = NoClicks

\* Lines 156-172 with neither button clicked.
NoButton ==
    /\ pc = "reset"
    /\ pc' = "frame"
    /\ UNCHANGED <<bodies, dt, i, j, start, frames, added, clicks>>

StepperNext ==
    \/ BeginFrame
    \/ ApplyGravityStep
    \/ UpdateStep
    \/ NoButton

SpecStepper == StepperInit /\ [][StepperNext]_vars

\* ----------------------------------------------------------------- claims

\* The simulation logic of the frame has run to its end and the buttons
\* have not been asked yet.
StepDone == pc = "reset"

InStep == pc \in {"gravity", "integrate", "reset"}

\* pos + vel * dt, written out.
Moved(pos, vel, d) ==
    Vec(pos.x + Quot(vel.x * d, VelScale \div PosScale),
        pos.y + Quot(vel.y * d, VelScale \div PosScale))

\* What the pair (a, b) adds to the velocity of a, read from the store bs.
Contribution(bs, a, b) ==
    ApplyGravity([bs[a] EXCEPT !.vel = Zeros], bs[b]).vel

\* The sum of the contributions of the pairs (a, 1) .. (a, b), b # a.
RECURSIVE SumContributions(_, _, _)
SumContributions(bs, a, b) ==
    IF b = 0 THEN Zeros
    ELSE VAdd(SumContributions(bs, a, b - 1),
              IF a = b THEN Zeros ELSE Contribution(bs, a, b))

\* C1: within one step no position is written before the pairwise pass has
\* finished: during the pass every body still has the position, mass and
\* radius it had when the step began; after the step every velocity is the
\* starting velocity plus the contributions of all pairs read from the store
\* as it stood when the step began, and every position is the starting
\* position plus that final velocity times dt.
C1_PositionsAfterWholePass ==
    /\ pc \in {"gravity", "integrate"} =>
          /\ Len(bodies) = Len(start)
          /\ \A k \in 1..Len(bodies) :
                /\ bodies[k].pos = start[k].pos
                /\ bodies[k].mass = start[k].mass
                /\ bodies[k].radius = start[k].radius
    /\ StepDone =>
          \A k \in 1..Len(bodies) :
             /\ bodies[k].vel =
                   VAdd(start[k].vel, SumContributions(start, k, Len(start)))
             /\ bodies[k].pos = Moved(start[k].pos, bodies[k].vel, dt)

\* C1's case: a step of three or more bodies has finished and some body
\* stands elsewhere than its starting velocity would have taken it.
C1_Witness ==
    /\ StepDone
    /\ Len(bodies) >= 3
    /\ \E k \in 1..Len(bodies) :
          bodies[k].pos # Moved(start[k].pos, start[k].vel, dt)

\* The pair (a, b) was within the sum of its radii when the step began.
TouchingAtStart(a, b) ==
    NormSquared(VSub(start[b].pos, start[a].pos))
        <= (start[a].radius + start[b].radius) * (start[a].radius + start[b].radius)

\* C2: a pair whose squared separation was at most the square of the sum of
\* its radii when the step began changes no velocity (and nothing else) when
\* it is processed, equality included, and the gate fires for (a, b) exactly
\* when it fires for (b, a).
C2_TouchingPairIsInert ==
    /\ [][(pc = "gravity" /\ TouchingAtStart(i, j)) => bodies' = bodies]_vars
    /\ [](\A a, b \in 1..Len(bodies) :
             GateFires(bodies[a], bodies[b]) <=> GateFires(bodies[b], bodies[a]))

\* C2's case: a step has finished in which one pair stood exactly at the sum
\* of its radii and another pair changed a velocity.
C2_Witness ==
    /\ StepDone
    /\ \E a, b \in 1..Len(start) :
          /\ a # b
          /\ NormSquared(VSub(start[b].pos, start[a].pos))
                = (start[a].radius + start[b].radius)
                     * (start[a].radius + start[b].radius)
    /\ \E c \in 1..Len(bodies) : bodies[c].vel # start[c].vel

\* The claim's condition for the kick of self with respect to other.
KickDue(self, other) ==
    LET dist_sq == NormSquared(VSub(other.pos, self.pos))
        reach == self.radius + other.radius
    IN  /\ dist_sq > reach * reach
        /\ dist_sq < OrbitRange * OrbitRange
        /\ other.mass > OrbitMassRatio * self.mass

\* C3: processing the pair (i, j) leaves body j as it was and adds the kick
\* (a vector that is not zero) to the velocity of i, on top of the
\* gravitational increment, exactly when the gate did not fire, dist < 150
\* and mass(j) > 5 * mass(i).
C3_KickIffDominantInRange ==
    [][pc = "gravity" =>
          LET self == bodies[i]
              other == bodies[j]
              plain == IF GateFires(self, other) THEN self.vel
                       ELSE VAdd(self.vel, Gravity(self, other))
          IN  /\ bodies'[j] = bodies[j]
              /\ IF KickDue(self, other)
                 THEN /\ Kick(self, other) # Zeros
                      /\ bodies'[i].vel = VAdd(plain, Kick(self, other))
                 ELSE bodies'[i].vel = plain]_vars

\* C3's case: a step has finished in which a kick was due.
C3_Witness ==
    /\ StepDone
    /\ \E a, b \in 1..Len(start) :
          /\ a # b
          /\ KickDue(start[a], start[b])
          /\ bodies[a].vel # VAdd(start[a].vel, Gravity(start[a], start[b]))

\* The example scenario: masses 10000 and 100 at (0, 0) and (100, 0) with
\* velocities (0, 0) and (0, 80).
Scenario ==
    << New(Zeros, 10000),
       [New(Vec(100 * PosScale, 0), 100) EXCEPT !.vel = Vec(0, 80 * VelScale)] >>

ScenarioStepped == StepDone /\ start = Scenario /\ dt = 1

\* C4 as stated: in the example scenario the gate fires and one step leaves
\* both velocities unchanged.
C4_ScenarioUnchanged ==
    ScenarioStepped =>
        /\ GateFires(start[1], start[2])
        /\ bodies[1].vel = start[1].vel
        /\ bodies[2].vel = start[2].vel

\* C4 amended: in the example scenario the gate does not fire (the radii are
\* 28.2 and 2.8, the separation 100), and one step gives the heavy body
\* G * 100 / 100^2 (6 of 1/VelScale) toward the light one and the light body
\* G * 10000 / 100^2 (667 of 1/VelScale) toward the heavy one and the kick
\* 0.05 along (0, -1).
C4_ScenarioAttractsAndKicks ==
    ScenarioStepped =>
        /\ ~ GateFires(start[1], start[2])
        /\ bodies[1].vel = Vec(6, 0)
        /\ bodies[2].vel = Vec(-667, 80 * VelScale - OrbitKick)

\* C4's case: one step of the example scenario with dt = 1 has finished.
C4_Witness == ScenarioStepped /\ bodies[2].pos # start[2].pos

\* C5: a click on "Add Planet" appends one body: the store grows by one, the
\* new body is last, has velocity (0, 0) and the radius of its own mass, and
\* every body stored before is unchanged at its index.
C5_AddPlanetAppendsOne ==
    [][(pc = "add" /\ clicks'.add) =>
          LET n == Len(bodies)
          IN  /\ Len(bodies') = n + 1
              /\ bodies'[n + 1].vel = Zeros
              /\ bodies'[n + 1].radius = Radius(bodies'[n + 1].mass)
              /\ \A k \in 1..n : bodies'[k] = bodies[k]]_vars

\* C5's case: the frame ended with a click on "Add Planet" and the store
\* holds a planet after moved asteroids.
C5_Witness ==
    /\ pc = "frame"
    /\ clicks.add
    /\ Len(bodies) > AsteroidCount
    /\ \E k \in 1..AsteroidCount : bodies[k].pos # start[k].pos

\* C6: the store holds the default population's count plus the planets
\* added since the last reset (or the start); a step never changes the size;
\* right after a reset the store is a default population again, asteroids
\* only.
C6_SizeIsDefaultPlusAdded ==
    /\ Len(bodies) = AsteroidCount + added
    /\ InStep => Len(bodies) = Len(start)
    /\ (pc = "add" /\ clicks.reset) =>
          /\ Len(bodies) = AsteroidCount
          /\ \A k \in 1..Len(bodies) : bodies[k].mass < 5

\* C6's case: a reset has just replaced a store that held an added planet.
C6_Witness ==
    /\ pc = "add"
    /\ clicks.reset
    /\ Len(start) > AsteroidCount

\* C7: every stored body has a positive mass and the radius of its own mass,
\* and during a step every body has the mass and the radius it had when the
\* step began.
C7_MassPositiveRadiusOfMass ==
    /\ \A k \in 1..Len(bodies) :
          /\ bodies[k].mass > 0
          /\ bodies[k].radius = Radius(bodies[k].mass)
    /\ InStep =>
          /\ Len(bodies) = Len(start)
          /\ \A k \in 1..Len(bodies) :
                /\ bodies[k].mass = start[k].mass
                /\ bodies[k].radius = start[k].radius

\* C7's case: a step over asteroids and a planet has finished and has changed
\* a velocity and a position.
C7_Witness ==
    /\ StepDone
    /\ Len(bodies) > AsteroidCount
    /\ \E k \in 1..Len(bodies) :
          /\ bodies[k].vel # start[k].vel
          /\ bodies[k].pos # start[k].pos

Bijections(n) ==
    { p \in [1..n -> 1..n] : \A a, b \in 1..n : p[a] = p[b] => a = b }

Permuted(bs, p) == [k \in 1..Len(bs) |-> bs[p[k]]]

\* C8: stepping a permuted store yields the same permutation of the stepped
\* store: what a step gives a body does not depend on the body's index nor
\* on the order in which the pairs are visited.
C8_StepCommutesWithPermutation ==
    StepDone =>
        \A p \in Bijections(Len(start)) :
            Step(Permuted(start, p), dt) = Permuted(bodies, p)

\* C8's case: a step with dt # 0 over three or more bodies, not all alike,
\* has finished and has changed a velocity.
C8_Witness ==
    /\ StepDone
    /\ dt # 0
    /\ Len(bodies) >= 3
    /\ \E a, b \in 1..Len(start) : start[a] # start[b]
    /\ \E k \in 1..Len(bodies) : bodies[k].vel # start[k].vel

Velocities(bs) == [k \in 1..Len(bs) |-> bs[k].vel]

\* C9: the velocities a step leaves are those a step with any other dt
\* leaves; every position has moved by the final velocity times dt; with
\* dt = 0 no position has moved.
C9_VelocityIgnoresDt ==
    StepDone =>
        /\ \A d \in DtSet : Velocities(Step(start, d)) = Velocities(bodies)
        /\ \A k \in 1..Len(bodies) :
              bodies[k].pos = Moved(start[k].pos, bodies[k].vel, dt)
        /\ dt = 0 => \A k \in 1..Len(bodies) : bodies[k].pos = start[k].pos

\* C9's case: a step with dt = 0 has finished and has changed a velocity.
C9_Witness ==
    /\ StepDone
    /\ dt = 0
    /\ \E k \in 1..Len(bodies) : bodies[k].vel # start[k].vel

\* The branch of line 48 is taken for self with respect to other.
Kicked(self, other) ==
    ~ GateFires(self, other) /\ OrbitAssist(self, other)

=============================================================================
